---- MODULE Spec2Model ----
(***************************************************************************)
(* RRuleMap (src/rrulemap.py): an ordered list of [key, value] items.  A   *)
(* key is a datetime or a dateutil rrule, a value is any Python object or  *)
(* None.  Later items take precedence over earlier ones.                   *)
(*                                                                         *)
(* Python values are records tagged by "kind".  A datetime is a point on   *)
(* an integer time line; an rrule is the arithmetic progression            *)
(* dtstart, dtstart + interval, ... (up to `until` when it has one), which *)
(* is what dateutil generates for a rule with one frequency and an         *)
(* interval.  One unit of the time line stands for the unit in which       *)
(* _maxdelta is counted.  All datetimes are aware: a point of the time     *)
(* line is an absolute time, and a time zone shows only when a rule is     *)
(* written as text.                                                        *)
(***************************************************************************)
EXTENDS Integers, Sequences, FiniteSets

VARIABLES
    _rulelist,  \* RRuleMap._rulelist: sequence of <<key, value>>
    op,         \* the call the running command made on the map, with its arguments
    ret,        \* what that call returned, or that it raised
    prev        \* _rulelist as it was when that call began

vars == <<_rulelist, op, ret, prev>>

----------------------------------------------------------------------------
(* Bounds of the model *)

MaxLen == 3     \* longest _rulelist that add/remove build
MaxT == 2       \* datetimes used as keys and arguments are 0..MaxT
MaxOver == 2    \* longest overlist handed to _uncovered when it is called alone
MaxWindow == 3  \* longest list handed to _uncovered as dtrange
MaxDay == 1     \* last date remove_date is called with

----------------------------------------------------------------------------
(* Python values *)

None == [kind |-> "None"]
Str(s) == [kind |-> "str", s |-> s]
datetime(t) == [kind |-> "datetime", t |-> t]
\* Time zones: dateutil.tz.UTC, and a tzfile read from the file of that name
\* under the first directory of dateutil.tz.TZPATHS.
tzutc == [kind |-> "tzutc"]
tzfile(name) == [kind |-> "tzfile", _filename |-> <<"/usr/share/zoneinfo", name>>]

\* An rrule whose dtstart (and until) carry the time zone tz.  dtstart and
\* until are points of the time line, as aware datetimes are.
rrule_in(tz, dtstart, interval, until) ==
    [kind |-> "rrule", dtstart |-> dtstart, interval |-> interval, until |-> until,
     tz |-> tz]
rrule(dtstart, interval, until) == rrule_in(tzutc, dtstart, interval, until)

\* How a call ends: with a value, or with an exception.
Returned(v) == [raised |-> FALSE, value |-> v]
Raised(e) == [raised |-> TRUE, value |-> e]

\* bool(x) for the values a map holds: None and the empty string are falsy.
bool(x) == x # None /\ x # Str("")

isdatetime(a) == a.kind = "datetime"
isrrule(a) == a.kind = "rrule"

\* _maxdelta = relativedelta(years=100), in units of the time line.
_maxdelta == 1

Time == 0 .. MaxT
Datetimes == {datetime(t) : t \in Time}
\* Every second unit from 0 without end; every unit from 1 until 2; every
\* unit from 0 until MaxT + 1, in a time zone that is not UTC.
Rules ==
    {rrule(0, 2, <<>>), rrule(1, 1, <<2>>),
     rrule_in(tzfile("Europe/Paris"), 0, 1, <<MaxT + 1>>)}
Keys == Datetimes \cup Rules
Labels == {Str("Regular"), Str("Special"), Str("")}
Values == Labels \cup {None}
\* Clock readings datetime.now() can give.
Nows == Time

----------------------------------------------------------------------------
(* dateutil.rrule, as RRuleMap uses it *)

\* t is an occurrence of rule r.
occurs(r, t) ==
    /\ t >= r.dtstart
    /\ (t - r.dtstart) % r.interval = 0
    /\ (Len(r.until) = 1 => t <= r.until[1])

\* `item in a` for an rrule a.
rrule_contains(r, item) == isdatetime(item) /\ occurs(r, item.t)

RECURSIVE ascending(_, _, _)
\* The occurrences of r in lo..hi as an ascending list of datetimes.
ascending(r, lo, hi) ==
    IF lo > hi THEN <<>>
    ELSE IF occurs(r, lo) THEN <<datetime(lo)>> \o ascending(r, lo + 1, hi)
    ELSE ascending(r, lo + 1, hi)

\* between taking its two bounds in either order.
rrule_between_unordered(r, after, before) ==
    IF after.t <= before.t THEN ascending(r, after.t, before.t)
    ELSE ascending(r, before.t, after.t)

\* a.between(after, before, inc=True): a list.
rrule_between(r, after, before) == ascending(r, after.t, before.t)

----------------------------------------------------------------------------
(* Rules as text *)

\* The hours a zone's clock is ahead of UTC; a naive datetime (tz None) is
\* read as it stands.
utcoffset(tz) == IF tz = None \/ tz = tzutc THEN 0 ELSE 1

\* What the clock of zone tz shows at the point t of the time line.
wall(t, tz) == t + utcoffset(tz)

\* dateutil.tz.gettz(name).
gettz(name) == IF name = "UTC" THEN tzutc ELSE tzfile(name)

\* _tz_tostr(t): the file name of a tzfile less the prefix found in TZPATHS.
_tz_tostr(t) == IF t = tzutc \/ t = None THEN "UTC" ELSE t._filename[2]

\* str(r) of dateutil: DTSTART and UNTIL as the rule's clock shows them,
\* without a zone; tzid <<>> stands for a DTSTART line without TZID, z for
\* the letter Z after UNTIL.
rrule_str(r) ==
    [kind |-> "rrulestr",
     tzid |-> <<>>,
     dtstart |-> wall(r.dtstart, r.tz),
     interval |-> r.interval,
     until |-> IF Len(r.until) = 1
               THEN <<[t |-> wall(r.until[1], r.tz), z |-> FALSE]>>
               ELSE <<>>]

\* str(r) with TZID put into the DTSTART line and UNTIL left as it is.
rrule_tostr_tzid(r) ==
    IF r.tz # None THEN [rrule_str(r) EXCEPT !.tzid = <<_tz_tostr(r.tz)>>]
    ELSE rrule_str(r)

_rrule_tostr(r) ==
    IF r.tz # None
    THEN LET ans == [rrule_str(r) EXCEPT !.tzid = <<_tz_tostr(r.tz)>>]
         IN  IF Len(r.until) = 1
             THEN [ans EXCEPT !.until = <<[t |-> wall(r.until[1], tzutc), z |-> TRUE]>>]
             ELSE ans
    ELSE rrule_str(r)

\* dateutil.rrule.rrulestr(a): DTSTART is read in the zone TZID names, UNTIL
\* with Z in UTC; a rule of which only one of dtstart and until is aware is
\* refused.
rrulestr(a) ==
    LET tz == IF Len(a.tzid) = 1 THEN gettz(a.tzid[1]) ELSE None
        dtstart == a.dtstart - utcoffset(tz)
    IN  IF Len(a.until) = 0 THEN Returned(rrule_in(tz, dtstart, a.interval, <<>>))
        ELSE IF (tz # None) # a.until[1].z THEN Raised("ValueError")
        ELSE Returned(rrule_in(tz, dtstart, a.interval, <<a.until[1].t>>))

----------------------------------------------------------------------------
(* RRuleMap *)

_hasdate(a, item) ==
    IF isdatetime(a) THEN a = item
    ELSE IF isrrule(a) THEN rrule_contains(a, item)
    ELSE FALSE

RECURSIVE getitem_scan(_, _, _)
\* The loop of __getitem__ over _rulelist[::-1], from index i down.
getitem_scan(rl, i, key) ==
    IF i = 0 THEN None
    ELSE IF _hasdate(rl[i][1], key) THEN rl[i][2]
    ELSE getitem_scan(rl, i - 1, key)

RECURSIVE getitem_oldest(_, _, _)
\* The scan run over _rulelist instead of _rulelist[::-1]: the oldest item wins.
getitem_oldest(rl, i, key) ==
    IF i > Len(rl) THEN None
    ELSE IF _hasdate(rl[i][1], key) THEN rl[i][2]
    ELSE getitem_oldest(rl, i + 1, key)

getitem_forward(rl, key) == getitem_oldest(rl, 1, key)

getitem(rl, key) == getitem_scan(rl, Len(rl), key)

\* Membership as `self[item] is not None`.
contains_notnone(rl, item) == getitem(rl, item) # None

contains(rl, item) == bool(getitem(rl, item))

\* A dict written with setdefault: a key keeps the first value it was given.
dict_setdefault(ans, keys, b) ==
    [k \in (DOMAIN ans) \cup keys |-> IF k \in DOMAIN ans THEN ans[k] ELSE b]

\* dict.update(zip(keys, repeat(b))) and ans[a] = b: the last writer wins.
dict_update(ans, keys, b) ==
    [k \in (DOMAIN ans) \cup keys |-> IF k \in keys THEN b ELSE ans[k]]

Range(s) == {s[i] : i \in DOMAIN s}

RECURSIVE between_loop(_, _, _, _, _)
\* The for loop of between: items i..Len(rl) written into the dict ans.
between_loop(rl, i, ans, dtstart, dtend) ==
    IF i > Len(rl) THEN ans
    ELSE LET a == rl[i][1]
             b == rl[i][2]
             hit == IF isdatetime(a)
                    THEN IF dtstart.t <= a.t /\ a.t <= dtend.t THEN {a} ELSE {}
                    ELSE Range(rrule_between(a, dtstart, dtend))
         IN  between_loop(rl, i + 1, dict_update(ans, hit, b), dtstart, dtend)

EmptyDict == [k \in {} |-> None]

RECURSIVE sorted_reverse(_)
\* sorted(..., reverse=True): descending list.
sorted_reverse(S) ==
    IF S = {} THEN <<>>
    ELSE LET m == CHOOSE x \in S : \A y \in S : x.t >= y.t
         IN  <<m>> \o sorted_reverse(S \ {m})

RECURSIVE sorted(_)
\* sorted(..., key=lambda x: x[0]) of a set of datetimes: ascending list.
sorted(S) ==
    IF S = {} THEN <<>>
    ELSE LET m == CHOOSE x \in S : \A y \in S : x.t <= y.t
         IN  <<m>> \o sorted(S \ {m})

\* The filter of between's last line: items whose value is truthy are kept.
between_keep(x) == bool(x)

between(rl, dtstart, dtend) ==
    LET ans == between_loop(rl, 1, EmptyDict, dtstart, dtend)
        kept == {k \in DOMAIN ans : between_keep(ans[k])}
        order == sorted(kept)
    IN  [i \in 1 .. Len(order) |-> <<order[i], ans[order[i]]>>]

\* The new item put before the items the list holds.
add_front(rl, key, value) == <<<<key, value>>>> \o rl

\* An item the list already holds is not added again.
add_dedup(rl, key, value) ==
    IF \E i \in DOMAIN rl : rl[i] = <<key, value>> THEN rl ELSE Append(rl, <<key, value>>)

add(rl, key, value) == Append(rl, <<key, value>>)

\* Removal by deleting every item whose key shares an instant with the key.
remove_overlapping(rl, key) ==
    SelectSeq(rl, LAMBDA x :
        \A t \in 0 .. (MaxT + 1) :
            ~(/\ IF isdatetime(key) THEN key.t = t ELSE occurs(key, t)
              /\ IF isdatetime(x[1]) THEN x[1].t = t ELSE occurs(x[1], t)))

\* Removal by deleting the items stored under the key.
remove_stored(rl, key) == SelectSeq(rl, LAMBDA x : x[1] # key)

remove(rl, key) == add(rl, key, None)

List(items) == [kind |-> "list", items |-> items]

\* base -= other, where other is the list an rrule's between returns: a set
\* takes only a set on the right of -=, so the statement raises TypeError.
set_isub(base, other) == Raised("TypeError")

RECURSIVE uncovered_loop(_, _, _, _, _)
\* The loop `for j in overlist` of _uncovered, from item j on.
uncovered_loop(base, overlist, j, starttime, endtime) ==
    IF j > Len(overlist) THEN Returned(base)
    ELSE IF isdatetime(overlist[j][1])
    THEN uncovered_loop(base \ {overlist[j][1]}, overlist, j + 1, starttime, endtime)
    ELSE LET r == set_isub(base, rrule_between(overlist[j][1], starttime, endtime))
         IN  IF r.raised THEN r
             ELSE uncovered_loop(r.value, overlist, j + 1, starttime, endtime)

\* The range _uncovered works in, from its argument dtrange and the clock.
\* The range taken from a list of exactly two datetimes only.
uncovered_range_pair(dtrange, now) ==
    IF dtrange = None
    THEN Returned(<<datetime(now.t - _maxdelta), datetime(now.t + _maxdelta)>>)
    ELSE IF isdatetime(dtrange)
    THEN Returned(<<datetime(dtrange.t - _maxdelta), datetime(dtrange.t + _maxdelta)>>)
    ELSE IF Len(dtrange.items) = 2
    THEN Returned(<<dtrange.items[1], dtrange.items[2]>>)
    ELSE Raised("TypeError")

uncovered_range(dtrange, now) ==
    IF dtrange = None
    THEN Returned(<<datetime(now.t - _maxdelta), datetime(now.t + _maxdelta)>>)
    ELSE IF isdatetime(dtrange)
    THEN Returned(<<datetime(dtrange.t - _maxdelta), datetime(dtrange.t + _maxdelta)>>)
    ELSE IF Len(dtrange.items) >= 2
    THEN Returned(<<dtrange.items[1], dtrange.items[2]>>)
    ELSE Raised("TypeError")

_uncovered(target, overlist, dtrange, now) ==
    LET w == uncovered_range(dtrange, now)
    IN  IF w.raised THEN w
        ELSE LET starttime == w.value[1]
                 endtime == w.value[2]
             IN  IF isdatetime(target)
                 THEN IF starttime.t <= target.t /\ target.t <= endtime.t
                      THEN uncovered_loop({target}, overlist, 1, starttime, endtime)
                      ELSE Returned({})
                 ELSE uncovered_loop(Range(rrule_between(target, starttime, endtime)),
                                     overlist, 1, starttime, endtime)

\* The pass with `len(base) <= 1` for `len(base) == 0`: an item with one
\* uncovered datetime is dropped too.
cull_step_eager(rl, to_remove, i, base) ==
    IF Cardinality(base) <= 1
    THEN [rulelist |-> rl, to_remove |-> Append(to_remove, i)]
    ELSE [rulelist |-> rl, to_remove |-> to_remove]

\* The pass with `len(base) >= 1` for `len(base) == 1`: a rule is replaced by
\* its first uncovered datetime whenever it has one.
cull_step_first(rl, to_remove, i, base) ==
    IF Cardinality(base) = 0
    THEN [rulelist |-> rl, to_remove |-> Append(to_remove, i)]
    ELSE IF ~isdatetime(rl[i][1])
    THEN [rulelist |-> [rl EXCEPT ![i] =
                            <<CHOOSE x \in base : \A y \in base : x.t <= y.t, rl[i][2]>>],
          to_remove |-> to_remove]
    ELSE [rulelist |-> rl, to_remove |-> to_remove]

\* The pass that writes the item anew when it replaces the key, without the
\* value.
cull_step_unlabelled(rl, to_remove, i, base) ==
    IF Cardinality(base) = 0
    THEN [rulelist |-> rl, to_remove |-> Append(to_remove, i)]
    ELSE IF ~isdatetime(rl[i][1]) /\ Cardinality(base) = 1
    THEN [rulelist |-> [rl EXCEPT ![i] = <<CHOOSE x \in base : TRUE, None>>],
          to_remove |-> to_remove]
    ELSE [rulelist |-> rl, to_remove |-> to_remove]

\* One pass of the body of cull_covered's first loop, for item i whose
\* uncovered set is base: the rule list and to_remove after it.
cull_step(rl, to_remove, i, base) ==
    IF Cardinality(base) = 0
    THEN [rulelist |-> rl, to_remove |-> Append(to_remove, i)]
    ELSE IF ~isdatetime(rl[i][1]) /\ Cardinality(base) = 1
    THEN [rulelist |-> [rl EXCEPT ![i] = <<CHOOSE x \in base : TRUE, rl[i][2]>>],
          to_remove |-> to_remove]
    ELSE [rulelist |-> rl, to_remove |-> to_remove]

\* The indices cull_covered's first loop visits: range(len(_rulelist) - 1).
cull_last(rl) == Len(rl) - 1

RECURSIVE cull_loop(_, _, _, _)
\* The first loop of cull_covered from item i on.  An error of _uncovered
\* leaves the method at once, with the keys replaced so far.
cull_loop(rl, to_remove, i, now) ==
    IF i > cull_last(rl) THEN [raised |-> FALSE, rulelist |-> rl, to_remove |-> to_remove]
    ELSE LET u == _uncovered(rl[i][1], SubSeq(rl, i + 1, Len(rl)), None, now)
         IN  IF u.raised
             THEN [raised |-> TRUE, rulelist |-> rl, to_remove |-> to_remove]
             ELSE LET s == cull_step(rl, to_remove, i, u.value)
                  IN  cull_loop(s.rulelist, s.to_remove, i + 1, now)

RECURSIVE del_items_forward(_, _, _)
\* `for i in to_remove: del self._rulelist[i]`: the deletions made from the
\* first index of to_remove on, each one shifting the items after it.
del_items_forward(rl, to_remove, k) ==
    IF k = 0 THEN rl
    ELSE LET i == to_remove[Len(to_remove) - k + 1]
         IN  del_items_forward(IF i \in DOMAIN rl
                               THEN SubSeq(rl, 1, i - 1) \o SubSeq(rl, i + 1, Len(rl))
                               ELSE rl,
                               to_remove, k - 1)

\* Only the last index of to_remove is deleted.
del_items_one(rl, to_remove, k) ==
    IF k = 0 THEN rl
    ELSE SubSeq(rl, 1, to_remove[k] - 1) \o SubSeq(rl, to_remove[k] + 1, Len(rl))

RECURSIVE del_items(_, _, _)
\* `for i in to_remove[::-1]: del self._rulelist[i]`, from position k down.
del_items(rl, to_remove, k) ==
    IF k = 0 THEN rl
    ELSE LET i == to_remove[k]
         IN  del_items(SubSeq(rl, 1, i - 1) \o SubSeq(rl, i + 1, Len(rl)), to_remove, k - 1)

\* cull_covered with the deletions in a `finally`: they are made also when
\* _uncovered has raised.
cull_covered_finally(rl, now) ==
    LET l == cull_loop(rl, <<>>, 1, now)
    IN  [raised |-> l.raised,
         rulelist |-> del_items(l.rulelist, l.to_remove, Len(l.to_remove))]

\* cull_covered: the rule list it leaves, and whether it raised.  Every call
\* of _uncovered reads the clock; the readings of one cull_covered are one
\* point of the time line.
cull_covered(rl, now) ==
    LET l == cull_loop(rl, <<>>, 1, now)
    IN  IF l.raised THEN [raised |-> TRUE, rulelist |-> l.rulelist]
        ELSE [raised |-> FALSE,
              rulelist |-> del_items(l.rulelist, l.to_remove, Len(l.to_remove))]

\* __getstate__: the second element of the state, the items with each rule
\* key written as text.
getstate(rl) ==
    [i \in 1 .. Len(rl) |->
        <<IF isdatetime(rl[i][1]) THEN rl[i][1] ELSE _rrule_tostr(rl[i][1]), rl[i][2]>>]

\* __setstate__(state): the rule list of the object restored.  When rrulestr
\* raises, the statement that would set _rulelist is not reached.
setstate(state) ==
    LET keys == [i \in 1 .. Len(state) |->
                    IF isdatetime(state[i][1]) THEN Returned(state[i][1])
                    ELSE rrulestr(state[i][1])]
    IN  IF \E i \in 1 .. Len(state) : keys[i].raised
        THEN [raised |-> TRUE, rulelist |-> <<>>]
        ELSE [raised |-> FALSE,
              rulelist |-> [i \in 1 .. Len(state) |-> <<keys[i].value, state[i][2]>>]]

\* min(base) of a non-empty set of datetimes.
min(base) == CHOOSE x \in base : \A y \in base : x.t <= y.t

\* Line 293 of getnext: the item is passed over.
getnext_skip(b, entrytype) == (entrytype # None /\ b # entrytype) \/ b = None

RECURSIVE getnext_loop(_, _, _, _, _)
\* The for loop of getnext from item i on: the dtnext it ends with.
getnext_loop(rl, i, entrytype, dtstart, dtnext) ==
    IF i > Len(rl) THEN Returned(dtnext)
    ELSE LET a == rl[i][1]
             b == rl[i][2]
             u == _uncovered(a, SubSeq(rl, i + 1, Len(rl)), List(<<dtstart, dtnext>>), dtstart)
         IN  IF getnext_skip(b, entrytype)
             THEN getnext_loop(rl, i + 1, entrytype, dtstart, dtnext)
             ELSE IF u.raised THEN u
             ELSE IF isdatetime(a) /\ dtstart.t <= a.t /\ a.t <= dtnext.t
             THEN getnext_loop(rl, i + 1, entrytype, dtstart,
                               IF u.value # {} THEN a ELSE dtnext)
             ELSE getnext_loop(rl, i + 1, entrytype, dtstart,
                               IF u.value # {} THEN min(u.value) ELSE dtnext)

\* The last three lines of getnext.
getnext_result(rl, dtnext) == IF bool(getitem(rl, dtnext)) THEN dtnext ELSE None

getnext(rl, entrytype, dtstart_arg, now) ==
    LET dtstart == IF dtstart_arg = None THEN now ELSE dtstart_arg
        l == getnext_loop(rl, 1, entrytype, dtstart, datetime(dtstart.t + _maxdelta))
    IN  IF l.raised THEN l ELSE Returned(getnext_result(rl, l.value))

----------------------------------------------------------------------------
(* The calls a client makes *)

\* No command is running: the commands of the bot are handled one at a time,
\* each to its end, so a call on the map begins only when the one before it
\* has been answered.
NoCall == [name |-> "idle"]
Idle == op = NoCall

Init ==
    /\ _rulelist = <<>>
    /\ op = NoCall
    /\ ret = Returned(None)
    /\ prev = <<>>

\* What ret holds while a call has begun and not yet ended.
Pending == [pending |-> TRUE]

\* The command answers (ctx.reply) and ends; the result of its call is gone.
\* A command answers after its call has ended.
Reply ==
    /\ ~Idle
    /\ ret # Pending
    /\ op' = NoCall
    /\ ret' = Returned(None)
    /\ prev' = _rulelist
    /\ UNCHANGED _rulelist

Add ==
    /\ Idle
    /\ \E key \in Keys, value \in Values :
        /\ Len(_rulelist) < MaxLen
        /\ _rulelist' = add(_rulelist, key, value)
        /\ op' = [name |-> "add", key |-> key, value |-> value]
        /\ ret' = Returned(None)
        /\ prev' = _rulelist

Remove ==
    /\ Idle
    /\ \E key \in Keys :
        /\ Len(_rulelist) < MaxLen
        /\ _rulelist' = remove(_rulelist, key)
        /\ op' = [name |-> "remove", key |-> key]
        /\ ret' = Returned(None)
        /\ prev' = _rulelist

GetItem ==
    /\ Idle
    /\ \E key \in Datetimes :
        /\ op' = [name |-> "__getitem__", key |-> key]
        /\ ret' = Returned(getitem(_rulelist, key))
        /\ prev' = _rulelist
        /\ UNCHANGED _rulelist

Contains ==
    /\ Idle
    /\ \E item \in Datetimes :
        /\ op' = [name |-> "__contains__", item |-> item]
        /\ ret' = Returned(contains(_rulelist, item))
        /\ prev' = _rulelist
        /\ UNCHANGED _rulelist

\* between answered whenever it is asked, also between two steps of a call
\* that has not ended.
BetweenAnytime ==
    /\ Idle \/ ret = Pending
    /\ \E dtstart \in Datetimes, dtend \in Datetimes :
        /\ op' = [name |-> "between", dtstart |-> dtstart, dtend |-> dtend]
        /\ ret' = Returned(between(_rulelist, dtstart, dtend))
        /\ prev' = _rulelist
        /\ UNCHANGED _rulelist

Between ==
    /\ Idle
    /\ \E dtstart \in Datetimes, dtend \in Datetimes :
        /\ op' = [name |-> "between", dtstart |-> dtstart, dtend |-> dtend]
        /\ ret' = Returned(between(_rulelist, dtstart, dtend))
        /\ prev' = _rulelist
        /\ UNCHANGED _rulelist

CullCovered ==
    /\ Idle
    /\ \E now \in Nows :
        LET r == cull_covered(_rulelist, datetime(now))
        IN  /\ _rulelist' = r.rulelist
            /\ op' = [name |-> "cull_covered", now |-> datetime(now)]
            /\ ret' = IF r.raised THEN Raised("TypeError") ELSE Returned("self")
            /\ prev' = _rulelist

\* A getnext that compacts the list before it searches.
GetNextCulling ==
    /\ Idle
    /\ \E entrytype \in Values, dtstart \in Datetimes \cup {None}, now \in Nows :
        /\ dtstart # None => now = dtstart.t
        /\ op' = [name |-> "getnext", entrytype |-> entrytype, dtstart |-> dtstart,
                  now |-> datetime(now)]
        /\ _rulelist' = cull_covered(_rulelist, datetime(now)).rulelist
        /\ ret' = getnext(_rulelist', entrytype, dtstart, datetime(now))
        /\ prev' = _rulelist

GetNext ==
    /\ Idle
    /\ \E entrytype \in Values, dtstart \in Datetimes \cup {None}, now \in Nows :
        /\ dtstart # None => now = dtstart.t
        /\ op' = [name |-> "getnext", entrytype |-> entrytype, dtstart |-> dtstart,
                  now |-> datetime(now)]
        /\ ret' = getnext(_rulelist, entrytype, dtstart, datetime(now))
        /\ prev' = _rulelist
        /\ UNCHANGED _rulelist

\* pickle.loads(pickle.dumps(map)): the map is replaced by the one restored
\* from its own state.
Restore ==
    /\ Idle
    /\ LET state == getstate(_rulelist)
           r == setstate(state)
       IN  /\ _rulelist' = r.rulelist
           /\ op' = [name |-> "__setstate__", state |-> state]
           /\ ret' = IF r.raised THEN Raised("ValueError") ELSE Returned(None)
           /\ prev' = _rulelist

Next ==
    \/ Add
    \/ Remove
    \/ GetItem
    \/ Contains
    \/ Between
    \/ CullCovered
    \/ GetNext
    \/ Restore
    \/ Reply

Spec == Init /\ [][Next]_vars

----------------------------------------------------------------------------
(* _uncovered called alone: a static method, on arguments of the caller *)

\* The lists of datetimes of length n.
Lists(n) == {List(q) : q \in [1 .. n -> Datetimes]}

\* The values of dtrange: None, a datetime, a list of datetimes.
Windows == {None} \cup Datetimes \cup UNION {Lists(n) : n \in 0 .. MaxWindow}

\* The values of overlist: lists of items.
Overlists == UNION {[1 .. n -> Keys \X Values] : n \in 0 .. MaxOver}

\* The clock is read only when dtrange is None.
UncoveredCall ==
    /\ Idle
    /\ \E target \in Keys, overlist \in Overlists, dtrange \in Windows, now \in Nows :
        /\ dtrange # None => now = 0
        /\ op' = [name |-> "_uncovered", target |-> target, overlist |-> overlist,
                  dtrange |-> dtrange, now |-> datetime(now)]
        /\ ret' = _uncovered(target, overlist, dtrange, datetime(now))
        /\ prev' = _rulelist
        /\ UNCHANGED _rulelist

UncoveredNext ==
    \/ UncoveredCall
    \/ Reply

UncoveredSpec == Init /\ [][UncoveredNext]_vars

----------------------------------------------------------------------------
(* What the properties speak of *)

\* An instant key covers t iff it equals t; a rule key covers t iff t is one
\* of its occurrences.
covers(key, t) ==
    IF isdatetime(key) THEN key.t = t.t ELSE occurs(key, t.t)

Covering(rl, t) == {i \in 1 .. Len(rl) : covers(rl[i][1], t)}

Highest(S) == CHOOSE i \in S : \A j \in S : j <= i

\* The label of the highest-index item covering t; None (absent) when no item
\* covers t, and when that item is a Mask, whose label is None.
EffectiveLabel(rl, t) ==
    IF Covering(rl, t) = {} THEN None ELSE rl[Highest(Covering(rl, t))][2]

InRange(t, dtstart, dtend) == dtstart.t <= t.t /\ t.t <= dtend.t

Called(name) == op.name = name /\ ~ret.raised

\* The datetimes of a list of (datetime, label) pairs.
Instants(pairs) == {pairs[i][1] : i \in DOMAIN pairs}

----------------------------------------------------------------------------
(* Point lookup and range query *)

\* C1 (Precedence): __getitem__(t) returns the label of the highest-index
\* item whose key covers t, and None when no item covers t or when that item
\* is a Mask.
C1_Precedence ==
    op.name = "__getitem__" => ret = Returned(EffectiveLabel(prev, op.key))

\* A lookup at an instant that an earlier and a later item cover with
\* different labels, one of the two keys a rule, the later one not a Mask.
C1_Witness ==
    /\ op.name = "__getitem__"
    /\ \E i, j \in Covering(prev, op.key) :
        /\ i < j
        /\ j = Highest(Covering(prev, op.key))
        /\ prev[i][2] # prev[j][2]
        /\ prev[i][2] # None
        /\ prev[j][2] # None
        /\ isrrule(prev[i][1]) \/ isrrule(prev[j][1])
    /\ ret.value # None

\* C2 (between agrees with point lookup): every pair (t, l) that between
\* returns has dtstart <= t <= dtend, l the effective label of t (the label of
\* the last-inserted item covering t, which is what the point lookup gives),
\* and l not the Mask.
C2_BetweenAgrees ==
    op.name = "between" =>
        \A k \in DOMAIN ret.value :
            LET t == ret.value[k][1]
                l == ret.value[k][2]
            IN  /\ InRange(t, op.dtstart, op.dtend)
                /\ l = EffectiveLabel(prev, t)
                /\ l = getitem(prev, t)
                /\ l # None

\* between returns an instant that an earlier instant item and a later rule
\* item cover with different labels, with the label of the rule.
C2_Witness ==
    /\ op.name = "between"
    /\ \E k \in DOMAIN ret.value : \E i, j \in DOMAIN prev :
        /\ i < j
        /\ prev[i][1] = ret.value[k][1]
        /\ isrrule(prev[j][1])
        /\ covers(prev[j][1], ret.value[k][1])
        /\ bool(prev[i][2])
        /\ prev[i][2] # prev[j][2]
        /\ ret.value[k][2] = prev[j][2]

\* C3 (between is complete): every instant t with dtstart <= t <= dtend whose
\* effective label is a label other than the Mask is in the result of
\* between(dtstart, dtend), whatever the label is.
C3_BetweenComplete ==
    op.name = "between" =>
        \A t \in Datetimes :
            (InRange(t, op.dtstart, op.dtend) /\ EffectiveLabel(prev, t) # None)
                => t \in Instants(ret.value)

\* C4 (Range uniqueness): the list between returns is strictly ascending by
\* instant, so no instant is in it twice.
C4_StrictlyAscending ==
    op.name = "between" =>
        \A k \in DOMAIN ret.value : \A m \in DOMAIN ret.value :
            k < m => ret.value[k][1].t < ret.value[m][1].t

\* between returns two instants or more, one of them covered by an instant
\* item and by a rule item at once.
C4_Witness ==
    /\ op.name = "between"
    /\ Len(ret.value) >= 2
    /\ \E k \in DOMAIN ret.value : \E i, j \in Covering(prev, ret.value[k][1]) :
        isdatetime(prev[i][1]) /\ isrrule(prev[j][1])

----------------------------------------------------------------------------
(* Compaction *)

\* The datetimes of the default horizon around the clock reading now.
Horizon(now) == {datetime(x) : x \in (now.t - _maxdelta) .. (now.t + _maxdelta)}

\* C5 (Compaction soundness, bounded): for every instant t from now - _maxdelta
\* to now + _maxdelta, the point lookup at t gives the same label before and
\* after cull_covered().
C5_CullSound ==
    op.name = "cull_covered" =>
        \A t \in Horizon(op.now) : getitem(_rulelist, t) = getitem(prev, t)

\* A cull_covered() that deleted an item and replaced a rule key by an
\* instant, on a map with a labelled instant inside the horizon.
C5_Witness ==
    /\ Called("cull_covered")
    /\ Len(_rulelist) < Len(prev)
    /\ \E i \in DOMAIN prev : \E k \in DOMAIN _rulelist :
        /\ isrrule(prev[i][1])
        /\ isdatetime(_rulelist[k][1])
        /\ _rulelist[k][2] = prev[i][2]
        /\ \A j \in DOMAIN prev : prev[j][1] # _rulelist[k][1]
    /\ \E t \in Horizon(op.now) : getitem(prev, t) # None

\* C6 (Compaction never fails): cull_covered() ends without raising, whatever
\* items the map holds.
C6_CullNeverFails ==
    op.name = "cull_covered" => ~ret.raised

----------------------------------------------------------------------------
(* Next occurrence *)

\* The datetime getnext searches from.
From == IF op.dtstart = None THEN op.now ELSE op.dtstart

\* The label l is one getnext(entrytype) looks for.
Matches(l, entrytype) == l # None /\ (entrytype = None \/ l = entrytype)

\* C7 (getnext result validity): an instant r returned by
\* getnext(entrytype, dtstart) has dtstart <= r <= dtstart + _maxdelta, an
\* effective label that is not the Mask and, when entrytype is given, that is
\* entrytype.
C7_GetNextValid ==
    (Called("getnext") /\ ret.value # None) =>
        /\ From.t <= ret.value.t
        /\ ret.value.t <= From.t + _maxdelta
        /\ getitem(prev, ret.value) # None
        /\ op.entrytype # None => getitem(prev, ret.value) = op.entrytype

\* Whenever getnext returns an instant r, no instant from dtstart up to r,
\* r excluded, has an effective label that getnext looks for.
GetNextMinimal ==
    (Called("getnext") /\ ret.value # None) =>
        \A x \in From.t .. (ret.value.t - 1) :
            ~Matches(getitem(prev, datetime(x)), op.entrytype)

\* Items (instant T, L1), (rule covering T and a later instant, L2), (that
\* later instant, Mask), and a search with no filter from before T.
ScenarioT == datetime(1)
ScenarioLog ==
    << <<ScenarioT, Str("Special")>>,
       <<rrule(1, 1, <<2>>), Str("Regular")>>,
       <<datetime(2), None>> >>
ScenarioCall ==
    /\ op.name = "getnext"
    /\ op.entrytype = None
    /\ op.dtstart = datetime(0)
    /\ prev = ScenarioLog

\* C8 (getnext minimality): whenever getnext returns an instant r, no earlier
\* instant from dtstart on has an effective label that is non-Mask and matches
\* the filter; and on the scenario's items, getnext with no filter from before
\* T returns T.
C8_GetNextMinimal ==
    /\ GetNextMinimal
    /\ ScenarioCall => ret = Returned(ScenarioT)

\* C9 (getnext absence): getnext returns None if and only if no instant from
\* dtstart to dtstart + _maxdelta has an effective label that is non-Mask and
\* matches the filter.
C9_GetNextAbsence ==
    Called("getnext") =>
        (ret.value = None <=>
            \A x \in From.t .. (From.t + _maxdelta) :
                ~Matches(getitem(prev, datetime(x)), op.entrytype))

----------------------------------------------------------------------------
(* Removal *)

\* C10 (Mask equivalence): remove(key) leaves the map in exactly the state
\* add(key, None) would, so every later call gives the same result after
\* either.
C10_MaskEquivalence ==
    op.name = "remove" => _rulelist = add(prev, op.key, None)

\* A remove(key) on a map in which the key is stored with a label.
C10_Witness ==
    /\ op.name = "remove"
    /\ \E i \in DOMAIN prev : prev[i][1] = op.key /\ bool(prev[i][2])

\* The instants at which the queries are compared.
Probe == {datetime(t) : t \in 0 .. (MaxT + 1)}

\* The instants of Probe that a point lookup or some between shows.
Present(rl) ==
    {t \in Probe : getitem(rl, t) # None}
        \cup UNION {Instants(between(rl, s, e)) : s \in Probe, e \in Probe}

\* Right after remove(key), no instant that key covers is shown.
RemovedAreGone ==
    op.name = "remove" => \A t \in Probe : covers(op.key, t) => t \notin Present(_rulelist)

\* The step is an add whose key covers t.
AddCovering(t) == op'.name = "add" /\ covers(op'.key, t)

\* The step is a cull_covered() whose horizon does not hold t.
CullBeyondHorizon(t) == op'.name = "cull_covered" /\ t \notin Horizon(op'.now)

\* C11 (Removal guarantee), as the claim has it: right after remove(key) every
\* instant that key covers is absent in the point lookup and missing from
\* every between result, and an instant that is not shown stays so through
\* every operation other than an add whose key covers it.  (An instant that
\* is not shown can come back only from under a Mask: nothing but add gives
\* an instant a new covering item.)
C11_RemovalPersists ==
    /\ []RemovedAreGone
    /\ [][_rulelist' # _rulelist =>
            \A t \in Present(_rulelist') \ Present(_rulelist) : AddCovering(t)]_vars

\* C11 (Removal guarantee), within the horizon: the same, except that
\* cull_covered() may bring back an instant outside now - _maxdelta ..
\* now + _maxdelta.
C11_RemovalPersistsInHorizon ==
    /\ []RemovedAreGone
    /\ [][_rulelist' # _rulelist =>
            \A t \in Present(_rulelist') \ Present(_rulelist) :
                AddCovering(t) \/ CullBeyondHorizon(t)]_vars

\* A cull_covered() that changed the map, which had a Mask over a labelled
\* item at an instant of the horizon: the instant is still not shown.
C11_Witness ==
    /\ Called("cull_covered")
    /\ _rulelist # prev
    /\ \E t \in Horizon(op.now) \cap Probe : \E i, j \in Covering(prev, t) :
        /\ i < j
        /\ j = Highest(Covering(prev, t))
        /\ prev[j][2] = None
        /\ bool(prev[i][2])
        /\ t \notin Present(_rulelist)

----------------------------------------------------------------------------
(* Insertion *)

\* C12 (add is a pure append): after add(key, label) the list is longer by
\* one, (key, label) is its last item and the items it held before are as
\* they were, at their indices, also when it already held an item equal to
\* (key, label).
C12_AddAppends ==
    op.name = "add" =>
        /\ Len(_rulelist) = Len(prev) + 1
        /\ _rulelist[Len(_rulelist)] = <<op.key, op.value>>
        /\ \A i \in DOMAIN prev : _rulelist[i] = prev[i]

\* An add(key, label) on a map that holds an item equal to (key, label).
C12_Witness ==
    /\ op.name = "add"
    /\ \E i \in DOMAIN prev : prev[i] = <<op.key, op.value>>
    /\ Len(_rulelist) = Len(prev) + 1

\* The list held (key, label) as its last item when add(key, label) began:
\* the call is the second of two adds of the same item.
SecondAdd ==
    /\ op.name = "add"
    /\ Len(prev) >= 1
    /\ prev[Len(prev)] = <<op.key, op.value>>

\* The point lookups, the range queries and the searches for the next
\* occurrence end alike on the lists rl1 and rl2.
SameAnswers(rl1, rl2) ==
    /\ \A t \in Probe : getitem(rl1, t) = getitem(rl2, t)
    /\ \A s \in Probe, e \in Probe : between(rl1, s, e) = between(rl2, s, e)
    /\ \A entrytype \in Values, d \in Datetimes :
        getnext(rl1, entrytype, d, d) = getnext(rl2, entrytype, d, d)

\* C13 (repeated add): after add(key, label) twice in a row the point lookup
\* at every instant, between over every range and getnext give what they
\* give after the one add.
C13_RepeatedAdd ==
    SecondAdd => SameAnswers(_rulelist, prev)

----------------------------------------------------------------------------
(* What compaction deletes and replaces *)

\* The uncovered set of item i of rl against the items after it, within the
\* horizon around now: the instants of the horizon that the key of item i
\* covers and no key of a later item covers.
UncoveredSet(rl, i, now) ==
    {t \in Horizon(now) :
        /\ covers(rl[i][1], t)
        /\ \A j \in (i + 1) .. Len(rl) : ~covers(rl[j][1], t)}

\* The items of rl that have something uncovered in the horizon.
Uncovered(rl, now) == {i \in DOMAIN rl : UncoveredSet(rl, i, now) # {}}

\* C14 (Compaction deletes covered entries): after cull_covered() every item
\* of the list as it was, the last one included, whose uncovered set against
\* the items after it is empty within the horizon has been deleted: no more
\* items are left than had something uncovered.
C14_CullDeletes ==
    op.name = "cull_covered" => Len(_rulelist) <= Cardinality(Uncovered(prev, op.now))

\* The place among the items left of item i of the list as it was, when the
\* items left are those with something uncovered.
PlaceAfterCull(rl, i, now) == Cardinality({j \in Uncovered(rl, now) : j <= i})

\* C15 (Compaction simplification): after cull_covered() every rule item whose
\* uncovered set against the items after it has exactly one instant within the
\* horizon has that instant as its key, with the label and the place among
\* the items left that it had.
C15_CullSimplifies ==
    op.name = "cull_covered" =>
        \A i \in DOMAIN prev :
            (isrrule(prev[i][1]) /\ Cardinality(UncoveredSet(prev, i, op.now)) = 1) =>
                LET k == PlaceAfterCull(prev, i, op.now)
                    t == CHOOSE x \in UncoveredSet(prev, i, op.now) : TRUE
                IN  /\ k <= Len(_rulelist)
                    /\ _rulelist[k] = <<t, prev[i][2]>>

\* C16 (Queries unaffected by compaction): for every range inside the
\* horizon of cull_covered() and every label filter, between(start, end), and
\* getnext(filter, from) with from and from + _maxdelta inside the horizon,
\* end alike on the list as it was and on the list cull_covered() left, also
\* when a rule item was replaced by an instant.
C16_QueriesUnaffected ==
    op.name = "cull_covered" =>
        /\ \A s \in Horizon(op.now), e \in Horizon(op.now) :
            between(_rulelist, s, e) = between(prev, s, e)
        /\ \A entrytype \in Values, d \in Horizon(op.now) :
            datetime(d.t + _maxdelta) \in Horizon(op.now) =>
                getnext(_rulelist, entrytype, d, d) = getnext(prev, entrytype, d, d)

\* A cull_covered() that deleted an item and replaced a rule key by an
\* instant, on a map for which a between inside the horizon returns a pair
\* and a getnext inside the horizon returns an instant.
C16_Witness ==
    /\ Called("cull_covered")
    /\ Len(_rulelist) < Len(prev)
    /\ \E i \in DOMAIN prev : \E k \in DOMAIN _rulelist :
        /\ isrrule(prev[i][1])
        /\ isdatetime(_rulelist[k][1])
        /\ _rulelist[k][2] = prev[i][2]
        /\ \A j \in DOMAIN prev : prev[j][1] # _rulelist[k][1]
    /\ \E s \in Horizon(op.now), e \in Horizon(op.now) : between(prev, s, e) # <<>>
    /\ \E d \in Horizon(op.now) :
        /\ datetime(d.t + _maxdelta) \in Horizon(op.now)
        /\ getnext(prev, None, d, d) \in {Returned(x) : x \in Horizon(op.now)}

----------------------------------------------------------------------------
(* Edges of the queries *)

\* C17 (Vacuous range): between(start, end) with start > end returns the
\* empty list and raises nothing, also when the map holds rule items.
C17_VacuousRange ==
    (op.name = "between" /\ op.dtstart.t > op.dtend.t) => ret = Returned(<<>>)

\* A between with start > end on a map that holds a labelled rule item with
\* an occurrence from end to start and a labelled instant item from end to
\* start.
C17_Witness ==
    /\ op.name = "between"
    /\ op.dtstart.t > op.dtend.t
    /\ \E i, j \in DOMAIN prev :
        /\ isrrule(prev[i][1])
        /\ bool(prev[i][2])
        /\ \E t \in Datetimes : InRange(t, op.dtend, op.dtstart) /\ covers(prev[i][1], t)
        /\ isdatetime(prev[j][1])
        /\ bool(prev[j][2])
        /\ InRange(prev[j][1], op.dtend, op.dtstart)
    /\ ~ret.raised

\* C18 (Malformed window), as the claim has it: _uncovered called with a list
\* of zero, one or more than two datetimes as dtrange raises instead of
\* returning a set.
C18_MalformedWindowFails ==
    (op.name = "_uncovered" /\ op.dtrange.kind = "list" /\ Len(op.dtrange.items) # 2)
        => ret.raised

\* C18 (Malformed window), as the code has it: _uncovered called with a list
\* of zero or one datetimes as dtrange raises TypeError; called with a list of
\* more than two it ends as it does for the first two alone.
C18_ShortWindowFails ==
    (op.name = "_uncovered" /\ op.dtrange.kind = "list") =>
        /\ Len(op.dtrange.items) < 2 => ret = Raised("TypeError")
        /\ Len(op.dtrange.items) > 2 =>
            ret = _uncovered(op.target, op.overlist,
                             List(SubSeq(op.dtrange.items, 1, 2)), op.now)

\* _uncovered called with a list of three datetimes, the third not the
\* second, and a non-empty overlist: it returns a non-empty set.
C18_Witness ==
    /\ op.name = "_uncovered"
    /\ op.dtrange.kind = "list"
    /\ Len(op.dtrange.items) = 3
    /\ op.dtrange.items[3] # op.dtrange.items[2]
    /\ op.overlist # <<>>
    /\ ~ret.raised
    /\ ret.value # {}

----------------------------------------------------------------------------
(* Persistence *)

\* The points of the time line at which two rules are compared.
Span == (0 - 1) .. (MaxT + 2)

----------------------------------------------------------------------------
(* Masking *)

\* The pairs of a between result whose instant the key does not cover.
NotCovered(pairs, key) == SelectSeq(pairs, LAMBDA x : ~covers(key, x[1]))

\* C20 (Masking is local): a Mask appended for key K takes out of every
\* between result the instants K covers and nothing else, the pairs left
\* being as they were, and leaves the effective label of every instant K does
\* not cover as it was.
C20_MaskingIsLocal ==
    op.name = "remove" =>
        /\ \A s \in Probe, e \in Probe :
            between(_rulelist, s, e) = NotCovered(between(prev, s, e), op.key)
        /\ \A t \in Probe :
            ~covers(op.key, t) => getitem(_rulelist, t) = getitem(prev, t)

\* A remove of one instant of a labelled rule: the instant was in a between
\* result with the rule's label and is out of it, and another occurrence of
\* the rule is still in it with that label.
C20_Witness ==
    /\ op.name = "remove"
    /\ isdatetime(op.key)
    /\ \E i \in DOMAIN prev : \E t \in Probe :
        /\ isrrule(prev[i][1])
        /\ bool(prev[i][2])
        /\ t # op.key
        /\ <<op.key, prev[i][2]>> \in Range(between(prev, datetime(0), datetime(MaxT + 1)))
        /\ <<t, prev[i][2]>> \in Range(between(_rulelist, datetime(0), datetime(MaxT + 1)))
        /\ covers(prev[i][1], t)
        /\ op.key \notin Instants(between(_rulelist, datetime(0), datetime(MaxT + 1)))

\* No item of rl covers an instant that key covers.
CoversNothingHeld(rl, key) ==
    \A x \in Span : covers(key, datetime(x)) => Covering(rl, datetime(x)) = {}

\* C21 (Explicit absence is indistinguishable from no entry): when no item
\* covers an instant of key K, remove(K) changes the outcome of no point
\* lookup, membership test, between or getnext.
C21_AbsenceIndistinguishable ==
    (op.name = "remove" /\ CoversNothingHeld(prev, op.key)) =>
        /\ SameAnswers(_rulelist, prev)
        /\ \A t \in Probe : contains(_rulelist, t) = contains(prev, t)

----------------------------------------------------------------------------
(* What compaction keeps *)

\* Item i of rl has two uncovered instants or more in the horizon, or is an
\* instant item that is uncovered.
Relevant(rl, i, now) ==
    \/ Cardinality(UncoveredSet(rl, i, now)) >= 2
    \/ isdatetime(rl[i][1]) /\ UncoveredSet(rl, i, now) # {}

\* C24 (Compaction keeps relevant entries): an item whose uncovered set has
\* two instants or more within the horizon, and an instant item whose
\* uncovered set is not empty, is in the list after cull_covered() with its
\* key and its label, moved down by no more places than items are gone.
C24_CullKeepsRelevant ==
    op.name = "cull_covered" =>
        \A i \in DOMAIN prev :
            Relevant(prev, i, op.now) =>
                \E k \in DOMAIN _rulelist :
                    /\ k <= i
                    /\ i - k <= Len(prev) - Len(_rulelist)
                    /\ _rulelist[k] = prev[i]

\* A cull_covered() that deleted an item and kept, before the last item, a
\* rule item with two uncovered instants.
C24_Witness ==
    /\ Called("cull_covered")
    /\ Len(_rulelist) < Len(prev)
    /\ \E i \in DOMAIN prev :
        /\ i < Len(prev)
        /\ isrrule(prev[i][1])
        /\ Cardinality(UncoveredSet(prev, i, op.now)) >= 2
        /\ \E k \in DOMAIN _rulelist : _rulelist[k] = prev[i]

\* The k-th index of the set S of indices, in ascending order.
Nth(S, k) == CHOOSE x \in S : Cardinality({y \in S : y <= x}) = k

\* The item now is the item was, or the item was with its rule key replaced
\* by an instant of the rule.
SameOrSimplified(now, was) ==
    /\ now[2] = was[2]
    /\ \/ now[1] = was[1]
       \/ isrrule(was[1]) /\ isdatetime(now[1]) /\ covers(was[1], now[1])

\* The list after is made of items of the list before, in their order.
Subsequence(after, before) ==
    \E S \in SUBSET DOMAIN before :
        /\ Cardinality(S) = Len(after)
        /\ \A k \in DOMAIN after : SameOrSimplified(after[k], before[Nth(S, k)])

\* C26 (Compaction preserves order and labels): after cull_covered() the list
\* is a subsequence of the list as it was: the items left stand in the order
\* they had, each with its label, a key being at most replaced by an instant
\* of its rule; no item is added and the list is no longer than it was.
C26_CullSubsequence ==
    op.name = "cull_covered" =>
        /\ Len(_rulelist) <= Len(prev)
        /\ Subsequence(_rulelist, prev)

\* A cull_covered() that deleted an item, replaced a rule key by an instant
\* and left two items with different labels.
C26_Witness ==
    /\ Called("cull_covered")
    /\ Len(_rulelist) = Len(prev) - 1
    /\ Len(_rulelist) = 2
    /\ _rulelist[1][2] # _rulelist[2][2]
    /\ bool(_rulelist[1][2])
    /\ isdatetime(_rulelist[1][1])
    /\ \A j \in DOMAIN prev : prev[j][1] # _rulelist[1][1]
    /\ \E i \in DOMAIN prev : isrrule(prev[i][1]) /\ _rulelist[1][2] = prev[i][2]

\* C27 (Compaction is idempotent): on a list that a cull_covered() has just
\* left without raising, a second cull_covered() with the same clock reading
\* does not raise and leaves the list, keys, labels and order, as it is.
C27_CullIdempotent ==
    Called("cull_covered") =>
        cull_covered(_rulelist, op.now) = [raised |-> FALSE, rulelist |-> _rulelist]

\* A cull_covered() that deleted an item and replaced a rule key and left two
\* items or more, so that the second one has an item to examine.
C27_Witness ==
    /\ Called("cull_covered")
    /\ Len(_rulelist) < Len(prev)
    /\ Len(_rulelist) >= 2
    /\ \E k \in DOMAIN _rulelist :
        /\ isdatetime(_rulelist[k][1])
        /\ \A j \in DOMAIN prev : prev[j][1] # _rulelist[k][1]

\* C29 (Failed compaction leaves the log intact): when cull_covered() stops
\* with the error _uncovered raised, the list holds the items it held before
\* the call, keys, labels and order: no key is replaced, no item deleted.
C29_FailedCullIntact ==
    (op.name = "cull_covered" /\ ret.raised) => _rulelist = prev

\* A cull_covered() that raised after it had put an item into to_remove.
C29_Witness ==
    /\ op.name = "cull_covered"
    /\ ret.raised
    /\ cull_loop(prev, <<>>, 1, op.now).to_remove # <<>>

----------------------------------------------------------------------------
(* Membership *)

----------------------------------------------------------------------------
(* The uncovered set *)

\* The instants from s to e that target covers and no key of overlist covers.
UncoveredIn(target, overlist, s, e) ==
    {t \in {datetime(x) : x \in s.t .. e.t} :
        /\ covers(target, t)
        /\ \A j \in DOMAIN overlist : ~covers(overlist[j][1], t)}

\* C23 (Uncovered set): for every target key, list of later items and window
\* [s, e], _uncovered returns the occurrences of the target from s to e, both
\* included, less every instant key of the later items and less every
\* occurrence from s to e of every rule key of the later items, whatever
\* their labels.
C23_UncoveredSet ==
    (op.name = "_uncovered" /\ op.dtrange.kind = "list" /\ Len(op.dtrange.items) = 2) =>
        ret = Returned(UncoveredIn(op.target, op.overlist,
                                   op.dtrange.items[1], op.dtrange.items[2]))

(* The queries on a map constructed with rules *)

\* RRuleMap(rules): the list starts as a copy of the rules given.
QueryInit ==
    /\ _rulelist \in Overlists
    /\ op = NoCall
    /\ ret = Returned(None)
    /\ prev = _rulelist

\* _uncovered as the methods call it: on the key of an item and the items after it.
UncoveredOfItem ==
    /\ Idle
    /\ \E i \in DOMAIN _rulelist, dtrange \in Windows, now \in Nows :
        /\ dtrange # None => now = 0
        /\ op' = [name |-> "_uncovered", target |-> _rulelist[i][1],
                  overlist |-> SubSeq(_rulelist, i + 1, Len(_rulelist)),
                  dtrange |-> dtrange, now |-> datetime(now)]
        /\ ret' = _uncovered(_rulelist[i][1], SubSeq(_rulelist, i + 1, Len(_rulelist)),
                             dtrange, datetime(now))
        /\ prev' = _rulelist
        /\ UNCHANGED _rulelist

QueryNext ==
    \/ GetItem
    \/ Contains
    \/ Between
    \/ GetNext
    \/ UncoveredOfItem
    \/ Reply

QuerySpec == QueryInit /\ [][QueryNext]_vars

\* The calls that only ask.
Queries == {"__getitem__", "__contains__", "between", "getnext", "_uncovered"}

\* C28: a point lookup, a membership test, between, getnext and _uncovered leave
\* the keys and labels of the list as they were when the call began, whether the
\* call returned or raised.
C28_QueriesReadOnly ==
    op.name \in Queries => _rulelist = prev

\* A getnext that raised on a list that holds items, and the list is as it was.
C28_Witness ==
    /\ op.name = "getnext"
    /\ ret.raised
    /\ _rulelist # <<>>
    /\ _rulelist = prev

-----------------------------------------------------------------------------
(* remove_date: the time line counted in ticks finer than a second *)

\* A datetime carries microseconds, a SECONDLY rule occurs on whole seconds
\* only: Second ticks to a second, two seconds to a day.
Second == 2
Day == 2 * Second

\* The dates and the zones remove_date is called with.
Dates == 0 .. MaxDay
Zones == {tzutc, tzfile("Europe/Paris")}

\* The instants of the first day in UTC, whole seconds and between them, and
\* the rule of every second.
DatedKeys == {datetime(t) : t \in 0 .. (Day - 1)} \cup {rrule(0, Second, <<>>)}

\* datetime.combine(key, time(0)).replace(tzinfo=tz): midnight on the clock of
\* tz, which is ahead of UTC by a whole number of seconds.
midnight(key, tz) == datetime(key * Day - utcoffset(tz) * Second)

\* dtstart + relativedelta(days=1, seconds=-1).
lastsecond(dtstart) == datetime(dtstart.t + Day - Second)

remove_date(rl, key, tz) ==
    LET dtstart == midnight(key, tz)
        dtend == lastsecond(dtstart)
    IN  IF between(rl, dtstart, dtend) # <<>>
        THEN add(rl, rrule_in(tz, dtstart.t, Second, <<dtend.t>>), None)
        ELSE rl

AddDated ==
    /\ Idle
    /\ \E key \in DatedKeys, value \in Values :
        /\ Len(_rulelist) < MaxLen
        /\ _rulelist' = add(_rulelist, key, value)
        /\ op' = [name |-> "add", key |-> key, value |-> value]
        /\ ret' = Returned(None)
        /\ prev' = _rulelist

RemoveDate ==
    /\ Idle
    /\ \E key \in Dates, tz \in Zones :
        /\ Len(_rulelist) < MaxLen
        /\ _rulelist' = remove_date(_rulelist, key, tz)
        /\ op' = [name |-> "remove_date", key |-> key, tz |-> tz]
        /\ ret' = Returned(None)
        /\ prev' = _rulelist

DateNext ==
    \/ AddDated
    \/ RemoveDate
    \/ Reply

DateSpec == Init /\ [][DateNext]_vars

\* C25: after remove_date(day, tz), between from the start of that day to its
\* last second returns the empty list; and when that between was empty before
\* the call, the list is left as it was.
C25_RemoveDate ==
    op.name = "remove_date" =>
        LET dtstart == midnight(op.key, op.tz)
            dtend == lastsecond(dtstart)
        IN  /\ between(_rulelist, dtstart, dtend) = <<>>
            /\ (between(prev, dtstart, dtend) = <<>> => _rulelist = prev)

-----------------------------------------------------------------------------
(* cull_covered step by step *)

\* cull_covered is a plain method without an await, called on the one thread
\* that runs the commands: between its steps nothing else runs, so every
\* other call waits for Idle.

\* A cull_covered that has begun and not ended.
Culling == op.name = "cull_covered" /\ ret = Pending

\* `midtime = now; to_remove = []`, i the item the first loop visits next.
CullBegin ==
    /\ Idle
    /\ \E now \in Nows :
        /\ op' = [name |-> "cull_covered", now |-> datetime(now), i |-> 1,
                  to_remove |-> <<>>]
        /\ ret' = Pending
        /\ prev' = _rulelist
        /\ UNCHANGED _rulelist

\* One pass of the first loop; an error of _uncovered ends the call.
CullExamine ==
    /\ Culling
    /\ op.i <= cull_last(_rulelist)
    /\ LET u == _uncovered(_rulelist[op.i][1],
                           SubSeq(_rulelist, op.i + 1, Len(_rulelist)), None, op.now)
       IN  IF u.raised
           THEN /\ op' = [name |-> "cull_covered", now |-> op.now]
                /\ ret' = Raised("TypeError")
                /\ UNCHANGED <<_rulelist, prev>>
           ELSE LET s == cull_step(_rulelist, op.to_remove, op.i, u.value)
                IN  /\ _rulelist' = s.rulelist
                    /\ op' = [op EXCEPT !.i = op.i + 1, !.to_remove = s.to_remove]
                    /\ UNCHANGED <<ret, prev>>

\* One pass of the second loop: `del self._rulelist[i]` for the last index
\* of to_remove not yet deleted.
CullDelete ==
    /\ Culling
    /\ op.i > cull_last(prev)
    /\ op.to_remove # <<>>
    /\ _rulelist' = del_items(_rulelist, <<op.to_remove[Len(op.to_remove)]>>, 1)
    /\ op' = [op EXCEPT !.to_remove = SubSeq(op.to_remove, 1, Len(op.to_remove) - 1)]
    /\ UNCHANGED <<ret, prev>>

\* `return self`.
CullReturn ==
    /\ Culling
    /\ op.i > cull_last(prev)
    /\ op.to_remove = <<>>
    /\ op' = [name |-> "cull_covered", now |-> op.now]
    /\ ret' = Returned("self")
    /\ UNCHANGED <<_rulelist, prev>>

CullNext ==
    \/ Add
    \/ Remove
    \/ GetItem
    \/ Contains
    \/ Between
    \/ GetNext
    \/ Restore
    \/ CullBegin
    \/ CullExamine
    \/ CullDelete
    \/ CullReturn
    \/ Reply

CullSpec == Init /\ [][CullNext]_vars

====
